---- MODULE Spec2Model ----
(***************************************************************************)
(* Model of the Quarto plots theme switcher (src/light-dark.js, v1.2.0,    *)
(* and its predecessor src/unnamed/part_000, v1.1.0).                      *)
(*                                                                         *)
(* The script keeps no state of its own: its state is the document.  The   *)
(* model holds the part of the document the script reads and writes: the   *)
(* body's class list, one img, one svg with an inline background, one rect *)
(* with an inline fill, a gt table container holding an svg <text> with a  *)
(* nested <tspan>, and the reactable widgets with the listeners and timers *)
(* of their pagination buttons.  The mutation observer's record queue, the *)
(* script's start-up position and a log of the last handler run complete   *)
(* the state.                                                              *)
(***************************************************************************)
EXTENDS Integers, Sequences, FiniteSets, TLC

VARIABLES
    version,    \* which file is loaded: "1.2.0" (light-dark.js) or "1.1.0" (part_000)
    pc,         \* "script": not evaluated yet; "active": evaluated; "failed": it threw
    hasBody,    \* document.body is non-null
    loaded,     \* DOMContentLoaded has fired
    observing,  \* observer.observe(document.body, ...) has succeeded
    dclHandler, \* updateImageSrc is registered for DOMContentLoaded
    classes,    \* document.body.classList
    img,        \* the img element: [src]
    svg,        \* the svg element: [background], its inline style.background
    rect,       \* the rect element: [fill], its inline style.fill
    gt,         \* the .gt_table_body container: [color], its inline style.color
    labels,     \* the <text> and its <tspan>: [present, style, originalStyle]
    rt,         \* the reactable widgets, the pointer and the armed timers
    pending,    \* mutation records queued for the observer callback
    authored,   \* the inline styles the page was authored with (never written)
    log         \* what the last handler run did

vars ==
    <<version, pc, hasBody, loaded, observing, dclHandler, classes, img, svg,
      rect, gt, labels, rt, pending, authored, log>>

dom ==
    <<img, svg, rect, gt, labels, rt>>

(***************************************************************************)
(* Bounds of the model.                                                    *)
(***************************************************************************)
MaxSrcLen == 2
MaxBatch == 2
MaxTables == 1
MaxListeners == 4
MaxTimers == 2

(***************************************************************************)
(* Values.                                                                 *)
(***************************************************************************)
Versions == {"1.1.0", "1.2.0"}

LightClass == "quarto-light"
DarkClass == "quarto-dark"

LightMarker == ".light"
DarkMarker == ".dark"
SrcTokens == {LightMarker, DarkMarker, "plot"}

LightColor == "rgb(255, 241, 229)"
DarkColor == "rgb(34, 34, 34)"

StyleKeys == <<"fill", "color", "fontSize", "fontWeight", "fontFamily", "textDecoration">>
StyleProps == {StyleKeys[i] : i \in 1..Len(StyleKeys)}

\* Properties whose computed value comes from the parent when unset.
InheritedProps == {"fill", "color", "fontSize", "fontWeight", "fontFamily"}

LabelOrder == <<"text", "tspan">>
LabelIds == {"text", "tspan"}

Buttons == {"p1", "p2"}
EventTypes == {"click", "mouseenter", "mouseleave", "mousedown", "mouseup"}

\* dataset.originalStyle of an element without the attribute (undefined).
NoSnapshot == <<>>

\* A cached snapshot that is no JSON text.
Malformed == <<<<"{oops", "">>>>

EmptyStyle == [p \in StyleProps |-> ""]

(***************************************************************************)
(* The browser's CSS value handling.                                       *)
(***************************************************************************)
\* The user agent's computed value of a property nothing sets.
UADefault(p) ==
    CASE p = "fill" -> "rgb(0, 0, 0)"
      [] p = "color" -> "rgb(0, 0, 0)"
      [] p = "fontSize" -> "16px"
      [] p = "fontWeight" -> "400"
      [] p = "fontFamily" -> "serif"
      [] OTHER -> "none"

\* What reading style[prop] returns after value v was assigned to it.
Specified(v) ==
    IF v = "rgb(204,193,183)" THEN "rgb(204, 193, 183)" ELSE v

\* The computed (resolved) form of a specified value.
Resolved(v) ==
    CASE v = "white" -> "rgb(255, 255, 255)"
      [] v = "red" -> "rgb(255, 0, 0)"
      [] v = "navy" -> "rgb(0, 0, 128)"
      [] v = "bold" -> "700"
      [] v = "rgb(204,193,183)" -> "rgb(204, 193, 183)"
      [] OTHER -> v

\* getComputedStyle(label)[p]: the label's own inline value, else the value
\* inherited from the <text> (for the <tspan>) and the gt container.
ComputedOf(styleOf, containerColor, e, p) ==
    LET own(x) == styleOf[x][p]
        fromContainer ==
            IF p = "color" /\ containerColor # ""
                THEN Resolved(containerColor)
                ELSE UADefault(p)
        ofText ==
            IF own("text") # "" THEN Resolved(own("text"))
            ELSE IF p \in InheritedProps THEN fromContainer
            ELSE UADefault(p)
    IN  IF e = "text" THEN ofText
        ELSE IF own("tspan") # "" THEN Resolved(own("tspan"))
        ELSE IF p \in InheritedProps THEN ofText
        ELSE UADefault(p)

getComputedStyle(lbls, containerColor, e) ==
    [p \in StyleProps |->
        ComputedOf([x \in LabelIds |-> lbls[x].style], containerColor, e, p)]

(***************************************************************************)
(* JSON.stringify / JSON.parse of a style snapshot.  The string is         *)
(* modelled as the sequence of its key/value members in insertion order.   *)
(***************************************************************************)
JSONstringify(obj) ==
    [i \in 1..Len(StyleKeys) |-> <<StyleKeys[i], obj[StyleKeys[i]]>>]

\* Mutant of Decodable: the decode is guarded and never throws.
DecodableAnything(str) ==
    TRUE

\* JSON.parse(str) returns: str is the text of an object.  JSON.parse of
\* undefined, or of a text that is no JSON, throws a SyntaxError.
Decodable(str) ==
    /\ str # NoSnapshot
    /\ \A i \in 1..Len(str) : str[i][1] \in StyleProps

JSONparse(str) ==
    [k \in {str[i][1] : i \in 1..Len(str)} |->
        LET last == CHOOSE i \in 1..Len(str) :
                        /\ str[i][1] = k
                        /\ \A j \in 1..Len(str) : str[j][1] = k => j <= i
        IN  str[last][2]]

(***************************************************************************)
(* updateImageSrc.  A pass threads the document d = [img, svg, rect, gt,   *)
(* labels, rt, w] through the steps in source order; d.w counts the writes *)
(* the pass performs: src assignments, inline style assignments that       *)
(* change a declaration, snapshot assignments and addEventListener calls;  *)
(* d.threw tells that the pass was ended by an uncaught exception.         *)
(***************************************************************************)
NoWrites == [src |-> 0, style |-> 0, snapshot |-> 0, listener |-> 0]

IsLightMode(cl) == LightClass \in cl

IsDarkMode(cl) == DarkClass \in cl

\* Mutant of ExitsEarly: the second negation is lost.
ExitsEarlyLostNegation(isLightMode, isDarkMode) ==
    ~isLightMode /\ isDarkMode

\* The early return: neither theme class is on the body.
ExitsEarly(isLightMode, isDarkMode) ==
    ~isLightMode /\ ~isDarkMode

\* String.prototype.replace with a string pattern: the first occurrence only.
RECURSIVE Replace(_, _, _)
Replace(s, pattern, replacement) ==
    IF s = <<>> THEN <<>>
    ELSE IF Head(s) = pattern THEN <<replacement>> \o Tail(s)
    ELSE <<Head(s)>> \o Replace(Tail(s), pattern, replacement)

\* Mutant of NewSrc: pattern and replacement are chosen the wrong way round.
NewSrcSwapped(src, isLightMode, isDarkMode) ==
    Replace(src,
            IF isLightMode THEN LightMarker ELSE DarkMarker,
            IF isDarkMode THEN LightMarker ELSE DarkMarker)

NewSrc(src, isLightMode, isDarkMode) ==
    Replace(src,
            IF isLightMode THEN DarkMarker ELSE LightMarker,
            IF isDarkMode THEN DarkMarker ELSE LightMarker)

ImgStep(d, isLightMode, isDarkMode) ==
    LET newSrc == NewSrc(d.img.src, isLightMode, isDarkMode)
    IN  IF newSrc # d.img.src
            THEN [d EXCEPT !.img.src = newSrc, !.w.src = @ + 1]
            ELSE d

\* The equality-guarded style write of updateStyle and the plain assignment
\* elem.style[prop] = value agree on the stored value; both leave the
\* declaration alone, and queue nothing, when it already reads as the value.
StyleChange(currentValue, value) ==
    IF currentValue # Specified(value) THEN 1 ELSE 0

\* Mutant of UpdateStyle: the light value is written in dark mode.
UpdateStyleSwapped(currentValue, lightValue, darkValue, isDarkMode) ==
    LET newValue == IF isDarkMode THEN lightValue ELSE darkValue
    IN  IF currentValue # newValue THEN Specified(newValue) ELSE currentValue

\* updateStyle(elem, prop, lightValue, darkValue): the value style[prop]
\* reads as afterwards.
UpdateStyle(currentValue, lightValue, darkValue, isDarkMode) ==
    LET newValue == IF isDarkMode THEN darkValue ELSE lightValue
    IN  IF currentValue # newValue THEN Specified(newValue) ELSE currentValue

\* svg[style*="background"] and rect[style*="fill"]: the inline style
\* declares the property.
DeclaresInline(value) ==
    value # ""

SvgStep(d, isDarkMode) ==
    LET after == UpdateStyle(d.svg.background, LightColor, DarkColor, isDarkMode)
    IN  IF DeclaresInline(d.svg.background)
            THEN [d EXCEPT !.svg.background = after,
                           !.w.style = @ + StyleChange(d.svg.background, after)]
            ELSE d

RectStep(d, isDarkMode) ==
    LET after == UpdateStyle(d.rect.fill, LightColor, DarkColor, isDarkMode)
    IN  IF DeclaresInline(d.rect.fill)
            THEN [d EXCEPT !.rect.fill = after,
                           !.w.style = @ + StyleChange(d.rect.fill, after)]
            ELSE d

\* The colour the dark branch forces on a label besides fill.
DarkLabelColor(ver) ==
    IF ver = "1.2.0" THEN "rgb(204,193,183)" ELSE "white"

\* Mutant of SnapshotMissing: the capture is never made.
SnapshotNeverMissing(originalStyle) ==
    FALSE

\* Mutant of SnapshotMissing: the snapshot is captured on every pass.
SnapshotAlwaysMissing(originalStyle) ==
    TRUE

\* !text.dataset.originalStyle
SnapshotMissing(originalStyle) ==
    originalStyle = NoSnapshot

\* Object.assign(text.style, originalStyle)
ObjectAssign(style, source) ==
    [p \in DOMAIN style |->
        IF p \in DOMAIN source THEN Specified(source[p]) ELSE style[p]]

NumChanged(old, new) ==
    Cardinality({p \in DOMAIN old : old[p] # new[p]})

\* The callback of the label step, applied to label e.
LabelUpdate(d, e, isDarkMode, ver) ==
    LET text == d.labels[e]
        capture == SnapshotMissing(text.originalStyle)
        snapshot ==
            IF capture
                THEN JSONstringify(getComputedStyle(d.labels, d.gt.color, e))
                ELSE text.originalStyle
        originalStyle == JSONparse(snapshot)
        newStyle ==
            IF isDarkMode
                THEN [text.style EXCEPT !.fill = Specified("white"),
                                        !.color = Specified(DarkLabelColor(ver))]
                ELSE ObjectAssign(text.style, originalStyle)
    IN  IF ~text.present \/ d.threw THEN d
        ELSE IF ~Decodable(snapshot)
            THEN [d EXCEPT !.labels[e].originalStyle = snapshot,
                           !.w.snapshot = @ + (IF capture THEN 1 ELSE 0),
                           !.threw = TRUE]
        ELSE [d EXCEPT !.labels[e].originalStyle = snapshot,
                       !.labels[e].style = newStyle,
                       !.w.snapshot = @ + (IF capture THEN 1 ELSE 0),
                       !.w.style = @ + NumChanged(text.style, newStyle)]

\* querySelectorAll(...).forEach over the labels, in document order.
RECURSIVE LabelStepFrom(_, _, _, _)
LabelStepFrom(d, i, isDarkMode, ver) ==
    IF i > Len(LabelOrder) THEN d
    ELSE LabelStepFrom(LabelUpdate(d, LabelOrder[i], isDarkMode, ver),
                       i + 1, isDarkMode, ver)

LabelStep(d, isDarkMode, ver) ==
    LabelStepFrom(d, 1, isDarkMode, ver)

\* Mutant of GtColor: the branches are exchanged.
GtColorSwapped(isDarkMode) ==
    IF isDarkMode THEN "" ELSE "white"

\* The colour the table step assigns to a gt container.
GtColor(isDarkMode) ==
    IF isDarkMode THEN "white" ELSE ""

GtStep(d, isDarkMode) ==
    [d EXCEPT !.gt.color = Specified(GtColor(isDarkMode)),
              !.w.style = @ + StyleChange(d.gt.color, GtColor(isDarkMode))]

(***************************************************************************)
(* The reactable step (light-dark.js only).  The outer forEach runs once   *)
(* per .reactable element; the selectors inside it query the whole         *)
(* document, so each run handles every reactable widget of the page.       *)
(***************************************************************************)
\* elem.style[prop] = value on a button field.
SetButton(d, b, prop, value) ==
    [d EXCEPT !.rt.button[b][prop] = Specified(value),
              !.w.style = @ + StyleChange(d.rt.button[b][prop], value)]

\* button.addEventListener(type, <a new closure>), n times.
AddListeners(d, b, type, n) ==
    [d EXCEPT !.rt.button[b].listeners[type] = @ + n,
              !.w.listener = @ + n]

RtRows(d, isDarkMode) ==
    LET after == UpdateStyle(d.rt.rowColor, "", IF isDarkMode THEN "white" ELSE "",
                             isDarkMode)
    IN  [d EXCEPT !.rt.rowColor = after,
                  !.w.style = @ + StyleChange(d.rt.rowColor, after)]

RtSearch(d, isDarkMode) ==
    LET new == IF isDarkMode
                   THEN [backgroundColor |-> "rgb(50, 50, 50)", color |-> "white",
                         borderColor |-> "rgba(255, 255, 255, 0.2)"]
                   ELSE [backgroundColor |-> "", color |-> "", borderColor |-> ""]
    IN  [d EXCEPT !.rt.search = new,
                  !.w.style = @ + NumChanged(d.rt.search, new)]

\* First ".rt-pagination button" block, for button b.
RtHover1(d, b, isDarkMode) ==
    IF isDarkMode
        THEN AddListeners(
                 AddListeners(
                     AddListeners(
                         SetButton(d, b, "transition", "background-color 0.2s"),
                         b, "click", 1),
                     b, "mouseenter", 1),
                 b, "mouseleave", 1)
        ELSE d

\* Second ".rt-pagination button" block, for button b.
RtHover2(d, b, isDarkMode) ==
    IF isDarkMode
        THEN AddListeners(
                 AddListeners(
                     AddListeners(
                         AddListeners(
                             SetButton(d, b, "transition", "background-color 0.2s"),
                             b, "mouseenter", 1),
                         b, "mouseleave", 1),
                     b, "mousedown", 1),
                 b, "mouseup", 1)
        ELSE SetButton(d, b, "transition", "")

\* ".rt-pagination-nav button"
RtNav(d, b, isDarkMode) ==
    SetButton(d, b, "color", IF isDarkMode THEN "rgba(255, 255, 255, 0.7)" ELSE "")

\* ".rt-page-button-current"
RtCurrent(d, isDarkMode) ==
    LET b == d.rt.current
    IN  IF isDarkMode
            THEN SetButton(SetButton(d, b, "backgroundColor", "rgba(255, 255, 255, 0.2)"),
                           b, "color", "white")
            ELSE SetButton(SetButton(d, b, "backgroundColor", ""), b, "color", "")

RtSortHeader(d, isDarkMode) ==
    LET value == IF isDarkMode THEN "white" ELSE ""
    IN  [d EXCEPT !.rt.sortColor = Specified(value),
                  !.w.style = @ + StyleChange(d.rt.sortColor, value)]

\* The callback of updateElements(".reactable", ...), run once.
ReactableBody(d, isDarkMode) ==
    LET d1 == RtSearch(RtRows(d, isDarkMode), isDarkMode)
        d2 == RtHover1(RtHover1(d1, "p1", isDarkMode), "p2", isDarkMode)
        d3 == RtHover2(RtHover2(d2, "p1", isDarkMode), "p2", isDarkMode)
        d4 == RtNav(RtNav(d3, "p1", isDarkMode), "p2", isDarkMode)
    IN  RtSortHeader(RtCurrent(d4, isDarkMode), isDarkMode)

RECURSIVE ReactableTimes(_, _, _)
ReactableTimes(d, n, isDarkMode) ==
    IF n = 0 THEN d
    ELSE ReactableTimes(ReactableBody(d, isDarkMode), n - 1, isDarkMode)

ReactableStep(d, isDarkMode, ver) ==
    IF ver = "1.2.0" THEN ReactableTimes(d, d.rt.tables, isDarkMode) ELSE d

\* The whole pass on document d0 with body class list cl.
UpdateImageSrc(d0, cl, ver) ==
    LET isLightMode == IsLightMode(cl)
        isDarkMode == IsDarkMode(cl)
        d1 == ImgStep([d0 EXCEPT !.threw = FALSE], isLightMode, isDarkMode)
        d2 == RectStep(SvgStep(d1, isDarkMode), isDarkMode)
        d3 == LabelStep(d2, isDarkMode, ver)
        d4 == GtStep(d3, isDarkMode)
    IN  IF ExitsEarly(isLightMode, isDarkMode) THEN [d0 EXCEPT !.threw = FALSE]
        ELSE IF d3.threw THEN d3
        ELSE ReactableStep(d4, isDarkMode, ver)

(***************************************************************************)
(* The mutation observer.  A record is [type, attributeName, target].      *)
(***************************************************************************)
Record(type, attributeName, target) ==
    [type |-> type, attributeName |-> attributeName, target |-> target]

\* Element.tagName of a record's target.
TagName(target) ==
    CASE target = "svg" -> "svg"
      [] target = "body" -> "BODY"
      [] target = "img" -> "IMG"
      [] target = "button" -> "BUTTON"
      [] OTHER -> "DIV"

\* The options of observer.observe(document.body, ...): attributes,
\* childList and subtree; light-dark.js adds attributeFilter: ["class"].
Observed(m, ver) ==
    \/ m.type = "childList"
    \/ /\ m.type = "attributes"
       /\ ver = "1.2.0" => m.attributeName \in {"class"}

\* Mutant of Qualifies: the name of a changed attribute is not tested.
QualifiesAnyAttribute(m) ==
    \/ m.type = "attributes"
    \/ m.type = "childList" /\ TagName(m.target) = "svg"

\* Mutant of Qualifies: the target of a child-list change is not tested.
QualifiesAnyTarget(m) ==
    \/ m.type = "attributes" /\ m.attributeName = "class"
    \/ m.type = "childList"

\* The test the callback applies to each record.
Qualifies(m) ==
    \/ m.type = "attributes" /\ m.attributeName = "class"
    \/ m.type = "childList" /\ TagName(m.target) = "svg"

\* Mutant of SyncCalls: one invocation per qualifying record.
SyncCallsPerRecord(mutations) ==
    Cardinality({i \in 1..Len(mutations) : Qualifies(mutations[i])})

\* How many times the callback invokes updateImageSrc for a batch.
SyncCalls(mutations) ==
    IF \E i \in 1..Len(mutations) : Qualifies(mutations[i]) THEN 1 ELSE 0

RECURSIVE Repeat(_, _)
Repeat(m, n) ==
    IF n = 0 THEN <<>> ELSE <<m>> \o Repeat(m, n - 1)

RECURSIVE SelectObserved(_, _)
SelectObserved(ms, ver) ==
    IF ms = <<>> THEN <<>>
    ELSE IF Observed(Head(ms), ver) THEN <<Head(ms)>> \o SelectObserved(Tail(ms), ver)
    ELSE SelectObserved(Tail(ms), ver)

\* The records the writes of a pass queue on a registered observer.
WriteRecords(w, ver) ==
    SelectObserved(Repeat(Record("attributes", "src", "img"), w.src)
                       \o Repeat(Record("attributes", "style", "element"), w.style)
                       \o Repeat(Record("attributes", "data-original-style", "text"),
                                 w.snapshot),
                   ver)

(***************************************************************************)
(* The documents the script may be loaded into.                            *)
(***************************************************************************)
RECURSIVE SeqsUpTo(_, _)
SeqsUpTo(S, n) ==
    IF n = 0 THEN {<<>>}
    ELSE LET shorter == SeqsUpTo(S, n - 1)
         IN  shorter \cup {Append(q, x) : q \in shorter, x \in S}

Sources == SeqsUpTo(SrcTokens, MaxSrcLen)

FullStyle ==
    [fill |-> "red", color |-> "navy", fontSize |-> "12px", fontWeight |-> "bold",
     fontFamily |-> "Arial", textDecoration |-> "underline"]

TextStyles == {EmptyStyle, [EmptyStyle EXCEPT !.fill = "red"], FullStyle}
TspanStyles == {EmptyStyle, [EmptyStyle EXCEPT !.fill = "red"]}

NoListeners == [t \in EventTypes |-> 0]

Button0 ==
    [transition |-> "", backgroundColor |-> "", color |-> "", listeners |-> NoListeners]

\* n .reactable elements sharing the page buttons p1 and p2, of which
\* `current` has the class rt-page-button-current; pointer: the button the
\* mouse pointer is on, or "away"; timers: the setTimeout(resetAllButtons, 50)
\* calls that have not fired yet.
Reactable(n) ==
    [tables |-> n, rowColor |-> "",
     search |-> [backgroundColor |-> "", color |-> "", borderColor |-> ""],
     button |-> [b \in Buttons |-> Button0], current |-> "p1", sortColor |-> "",
     pointer |-> "away", timers |-> 0]

Label(present, style) ==
    [present |-> present, style |-> style, originalStyle |-> NoSnapshot]

Doc(src, background, fill, color, present, textStyle, tspanStyle, tables) ==
    [img |-> [src |-> src], svg |-> [background |-> background],
     rect |-> [fill |-> fill], gt |-> [color |-> color],
     labels |-> [e \in LabelIds |->
                    Label(present, IF e = "text" THEN textStyle ELSE tspanStyle)],
     rt |-> Reactable(tables)]

\* Each document varies one kind of element against a plain page.
Documents ==
    {Doc(src, "red", "red", "", TRUE, EmptyStyle, EmptyStyle, 0) : src \in Sources}
    \cup {Doc(<<"plot", LightMarker>>, bg, fl, "", TRUE, EmptyStyle, EmptyStyle, 0) :
              bg \in {"", "red"}, fl \in {"", "red"}}
    \cup {Doc(<<"plot", LightMarker>>, "red", "red", c, p, ts, ss, 0) :
              c \in {"", "navy"}, p \in BOOLEAN, ts \in TextStyles, ss \in TspanStyles}
    \cup {Doc(<<"plot", LightMarker>>, "red", "red", "", TRUE, EmptyStyle, EmptyStyle, n) :
              n \in 0..MaxTables}

(***************************************************************************)
(* State.                                                                  *)
(***************************************************************************)
\* by: the handler of the last step ("script", "dcl", "observer"; "page"
\* for a change made by the page); calls: its invocations of updateImageSrc;
\* isLight, isDark: the theme flags of the latest invocation; w: the writes
\* of the last step; clean: the page has not changed the document since the
\* latest invocation; mixed: some invocation so far found both theme classes
\* on the body; threw: the last step's invocation ended in an uncaught
\* exception.
Log(by, calls, cl, w, clean, mixed, threw) ==
    [by |-> by, calls |-> calls, isLight |-> IsLightMode(cl),
     isDark |-> IsDarkMode(cl), w |-> w, clean |-> clean,
     mixed |-> mixed \/ (calls >= 1 /\ IsLightMode(cl) /\ IsDarkMode(cl)),
     threw |-> threw]

\* The script is about to be evaluated in one of the pages.
Start(pages) ==
    /\ version \in Versions
    /\ pc = "script"
    /\ hasBody \in BOOLEAN
    /\ loaded = FALSE
    /\ observing = FALSE
    /\ dclHandler = FALSE
    /\ classes \in SUBSET {LightClass, DarkClass}
    /\ \E doc \in pages :
        /\ img = doc.img
        /\ svg = doc.svg
        /\ rect = doc.rect
        /\ gt = doc.gt
        /\ labels = doc.labels
        /\ rt = doc.rt
        /\ authored = doc
    /\ pending = <<>>
    /\ log = Log("none", 0, {}, NoWrites, FALSE, FALSE, FALSE)

Init ==
    Start(Documents)

Document ==
    [img |-> img, svg |-> svg, rect |-> rect, gt |-> gt, labels |-> labels,
     rt |-> rt, w |-> NoWrites, threw |-> FALSE]

\* updateImageSrc invoked n times in a row.
RECURSIVE Invoke(_, _, _, _)
Invoke(d, n, cl, ver) ==
    IF n = 0 THEN d
    ELSE Invoke(UpdateImageSrc(d, cl, ver), n - 1, cl, ver)

\* A further dark pass stays within the listener bound.
WithinBound(n) ==
    \/ n = 0
    \/ ~IsDarkMode(classes)
    \/ version # "1.2.0"
    \/ \A b \in Buttons :
           rt.button[b].listeners["mouseenter"] + 2 * rt.tables * n <= MaxListeners

\* The handler ran: the document and the log after n invocations, and the
\* records its writes queue when the observer is registered.
Ran(by, n, registered) ==
    /\ WithinBound(n)
    /\ \E after \in {Invoke(Document, n, classes, version)} :
        /\ img' = after.img
        /\ svg' = after.svg
        /\ rect' = after.rect
        /\ gt' = after.gt
        /\ labels' = after.labels
        /\ rt' = after.rt
        /\ log' = IF n = 0
                      THEN [log EXCEPT !.by = by, !.calls = 0, !.w = NoWrites,
                                       !.threw = FALSE]
                      ELSE Log(by, n, classes, after.w, TRUE, log.mixed, after.threw)
        /\ pending' = IF registered THEN WriteRecords(after.w, version) ELSE <<>>

(***************************************************************************)
(* The script's own steps.                                                 *)
(***************************************************************************)
\* Evaluation of the script: observer.observe(document.body, ...) throws a
\* TypeError when document.body is null, and the rest is not reached.
ScriptLoad ==
    /\ pc = "script"
    /\ IF hasBody
           THEN /\ pc' = "active"
                /\ observing' = TRUE
                /\ dclHandler' = TRUE
                /\ Ran("script", 1, TRUE)
           ELSE /\ pc' = "failed"
                /\ UNCHANGED <<observing, dclHandler, img, svg, rect, gt, labels,
                               rt, pending, log>>
    /\ UNCHANGED <<version, hasBody, loaded, classes, authored>>

\* The document finished parsing: the body exists, the handler runs if set.
DOMContentLoaded ==
    /\ pc # "script"
    /\ ~loaded
    /\ pending = <<>>
    /\ loaded' = TRUE
    /\ hasBody' = TRUE
    /\ Ran("dcl", IF dclHandler THEN 1 ELSE 0, observing)
    /\ UNCHANGED <<version, pc, observing, dclHandler, classes, authored>>

\* The observer callback on the queued batch.
Deliver ==
    /\ pending # <<>>
    /\ Ran("observer", SyncCalls(pending), observing)
    /\ UNCHANGED <<version, pc, hasBody, loaded, observing, dclHandler, classes,
                   authored>>

(***************************************************************************)
(* The page around the script: Quarto's theme toggle, widgets and other    *)
(* scripts change the document; each change queues its record.  Changes    *)
(* of one task share a batch, which holds at most MaxBatch records.  The   *)
(* records of the script's own writes are delivered at the end of the task *)
(* that made them, before the page runs again.                             *)
(***************************************************************************)
OwnWrite(m) ==
    m.attributeName \in {"src", "style", "data-original-style"}

Queue(m) ==
    /\ Len(pending) < MaxBatch
    /\ \A i \in 1..Len(pending) : ~OwnWrite(pending[i])
    /\ pending' = IF observing /\ Observed(m, version)
                      THEN Append(pending, m)
                      ELSE pending

PageChange(changesDocument) ==
    /\ pc # "script"
    /\ hasBody
    /\ log' = [log EXCEPT !.by = "page", !.calls = 0, !.w = NoWrites,
                          !.clean = @ /\ ~changesDocument, !.threw = FALSE]
    /\ UNCHANGED <<version, pc, hasBody, loaded, observing, dclHandler, authored>>

\* document.body.classList.add(c)
AddClass(c) ==
    /\ c \notin classes
    /\ classes' = classes \cup {c}
    /\ Queue(Record("attributes", "class", "body"))
    /\ PageChange(TRUE)
    /\ UNCHANGED dom

\* document.body.classList.remove(c)
RemoveClass(c) ==
    /\ c \in classes
    /\ classes' = classes \ {c}
    /\ Queue(Record("attributes", "class", "body"))
    /\ PageChange(TRUE)
    /\ UNCHANGED dom

\* A plot library draws the <text> and its <tspan> into the svg.
InsertLabels ==
    /\ ~labels["text"].present
    /\ labels' = [e \in LabelIds |-> [authored.labels[e] EXCEPT !.present = TRUE]]
    /\ Queue(Record("childList", "", "svg"))
    /\ PageChange(TRUE)
    /\ UNCHANGED <<classes, img, svg, rect, gt, rt>>

\* The class attribute of an element other than the body changes.
ElementClassChange ==
    /\ Queue(Record("attributes", "class", "div"))
    /\ PageChange(FALSE)
    /\ UNCHANGED <<classes, dom>>

\* A child is added to an element that is no svg.
AppendToDiv ==
    /\ Queue(Record("childList", "", "div"))
    /\ PageChange(FALSE)
    /\ UNCHANGED <<classes, dom>>

\* An attribute other than class changes.
SetTitle ==
    /\ Queue(Record("attributes", "title", "div"))
    /\ PageChange(FALSE)
    /\ UNCHANGED <<classes, dom>>

(***************************************************************************)
(* The listeners the dark pass adds to the pagination buttons.  All        *)
(* listeners of one type on a button do the same, so an event acts when at *)
(* least one is registered; each click listener arms a timer of its own.   *)
(* light-dark.js filters the observer to class changes, so the style       *)
(* writes of the listeners queue no record.                                *)
(***************************************************************************)
originalBg == ""

Listens(b, type) ==
    rt.button[b].listeners[type] >= 1

\* A mouse event of the given type was dispatched to button b (by = "mouse")
\* or a timer fired (by = "timer").
Dispatched(by) ==
    /\ pc # "script"
    /\ hasBody
    /\ log' = [log EXCEPT !.by = by, !.calls = 0, !.w = NoWrites,
                          !.clean = FALSE, !.threw = FALSE]
    /\ UNCHANGED <<version, pc, hasBody, loaded, observing, dclHandler, classes,
                   img, svg, rect, gt, labels, pending, authored>>

\* button.style.backgroundColor = value unless the button is the current one.
UnlessCurrent(r, b, value) ==
    IF b # r.current
        THEN [r EXCEPT !.button[b].backgroundColor = Specified(value)]
        ELSE r

resetAllButtons(r) ==
    [r EXCEPT !.button =
        [btn \in Buttons |->
            IF btn # r.current
                THEN [r.button[btn] EXCEPT !.backgroundColor = originalBg]
                ELSE r.button[btn]]]

MouseEnter(b) ==
    /\ rt.pointer = "away"
    /\ rt' = [(IF Listens(b, "mouseenter")
                   THEN UnlessCurrent(rt, b, "rgba(255, 255, 255, 0.1)")
                   ELSE rt) EXCEPT !.pointer = b]
    /\ Dispatched("mouse")

MouseLeave(b) ==
    /\ rt.pointer = b
    /\ rt' = [(IF Listens(b, "mouseleave")
                   THEN UnlessCurrent(rt, b, originalBg)
                   ELSE rt) EXCEPT !.pointer = "away"]
    /\ Dispatched("mouse")

MouseDown(b) ==
    /\ rt.pointer = b
    /\ rt' = IF Listens(b, "mousedown")
                 THEN [rt EXCEPT !.button[b].backgroundColor =
                                     "rgba(255, 255, 255, 0.2)"]
                 ELSE rt
    /\ Dispatched("mouse")

MouseUp(b) ==
    /\ rt.pointer = b
    /\ rt' = IF Listens(b, "mouseup")
                 THEN UnlessCurrent(rt, b, "rgba(255, 255, 255, 0.1)")
                 ELSE rt
    /\ Dispatched("mouse")

\* Each click listener calls setTimeout(resetAllButtons, 50).
Click(b) ==
    /\ rt.pointer = b
    /\ rt.timers + rt.button[b].listeners["click"] <= MaxTimers
    /\ rt' = [rt EXCEPT !.timers = @ + rt.button[b].listeners["click"]]
    /\ Dispatched("mouse")

\* A timer fires.
Timeout ==
    /\ rt.timers > 0
    /\ rt' = [resetAllButtons(rt) EXCEPT !.timers = @ - 1]
    /\ Dispatched("timer")

\* reactable moves the class rt-page-button-current to button b: after a
\* click on a page button, or when the search box, the page size control or
\* its API changes the page.  One record stands for the class changes.
MoveCurrent(b) ==
    /\ b # rt.current
    /\ rt' = [rt EXCEPT !.current = b]
    /\ Queue(Record("attributes", "class", "button"))
    /\ PageChange(TRUE)
    /\ UNCHANGED <<classes, img, svg, rect, gt, labels>>

\* The steps that invoke the pass or change what it reads.  AppendToDiv and
\* SetTitle change nothing the pass reads and queue records that invoke
\* nothing; NextObserver adds them.
Next ==
    \/ ScriptLoad
    \/ DOMContentLoaded
    \/ Deliver
    \/ \E c \in {LightClass, DarkClass} : AddClass(c)
    \/ \E c \in {LightClass, DarkClass} : RemoveClass(c)
    \/ InsertLabels
    \/ ElementClassChange

Spec == Init /\ [][Next]_vars

(***************************************************************************)
(* The observer on every kind of record: one page whose labels are drawn   *)
(* after the script has run, with the changes that queue records the       *)
(* callback has to tell apart.                                             *)
(***************************************************************************)
ObservedPage ==
    Doc(<<"plot", LightMarker>>, "red", "red", "", FALSE, EmptyStyle, EmptyStyle, 0)

InitObserver ==
    /\ Init
    /\ authored = ObservedPage

NextObserver ==
    \/ Next
    \/ AppendToDiv
    \/ SetTitle

SpecObserver == InitObserver /\ [][NextObserver]_vars

(***************************************************************************)
(* A page with reactable widgets and a user who moves over the pagination  *)
(* buttons, presses and clicks them.                                       *)
(***************************************************************************)
ReactablePages ==
    {Doc(<<"plot", LightMarker>>, "red", "red", "", FALSE, EmptyStyle, EmptyStyle, n) :
         n \in 1..MaxTables}

InitReactable ==
    /\ Start(ReactablePages)
    /\ version = "1.2.0"
    /\ hasBody

NextReactable ==
    \/ ScriptLoad
    \/ DOMContentLoaded
    \/ Deliver
    \/ \E c \in {LightClass, DarkClass} : AddClass(c)
    \/ \E c \in {LightClass, DarkClass} : RemoveClass(c)
    \/ \E b \in Buttons : MouseEnter(b)
    \/ \E b \in Buttons : MouseLeave(b)
    \/ \E b \in Buttons : MouseDown(b)
    \/ \E b \in Buttons : MouseUp(b)
    \/ \E b \in Buttons : Click(b)
    \/ Timeout
    \/ \E b \in Buttons : MoveCurrent(b)

SpecReactable == InitReactable /\ [][NextReactable]_vars

(***************************************************************************)
(* Pages whose labels may arrive with a data-original-style attribute that *)
(* is no JSON text.                                                        *)
(***************************************************************************)
Cached(doc, e, value) ==
    [doc EXCEPT !.labels[e].originalStyle = value]

CachedPages ==
    {Cached(Doc(<<"plot", LightMarker>>, "red", "red", "", present, EmptyStyle,
                EmptyStyle, n), e, value) :
         present \in BOOLEAN, n \in 0..MaxTables, e \in LabelIds,
         value \in {NoSnapshot, Malformed}}

InitCached ==
    Start(CachedPages)

SpecCached == InitCached /\ [][Next]_vars

(***************************************************************************)
(* Properties.                                                             *)
(***************************************************************************)
\* The step just taken invoked updateImageSrc (a stuttering step invokes
\* nothing and is exempt from every [][...]_vars below).
Synced == log'.calls >= 1

OnlyLight(l) == l.isLight /\ ~l.isDark
OnlyDark(l) == l.isDark /\ ~l.isLight

Contains(src, marker) ==
    \E i \in 1..Len(src) : src[i] = marker

\* The computed style a label has on the page as authored, with no write of
\* the script in effect.
TrueOriginal(e) ==
    getComputedStyle(authored.labels, authored.gt.color, e)

\* C1 (no-op guarantee): an invocation of updateImageSrc while the body has
\* neither quarto-light nor quarto-dark leaves the img, the svg, the rect,
\* the gt container, the labels with their snapshots and the reactable
\* widgets with their listeners as they were, and performs no write.
C1_NoOp ==
    [][(Synced /\ LightClass \notin classes /\ DarkClass \notin classes)
           => (dom' = dom /\ log'.w = NoWrites)]_vars

\* C1 witness: a pass just ran on a body without theme class although an
\* earlier dark pass had left its colours and the img still has a marker.
C1_Witness ==
    /\ log.calls >= 1
    /\ ~log.isLight /\ ~log.isDark
    /\ classes = {}
    /\ svg.background = DarkColor
    /\ Contains(img.src, DarkMarker)
    /\ labels["text"].present

\* C2 (idempotence), as claimed: an invocation that follows another with no
\* change of the document or the theme in between performs no write and
\* leaves the document as the first one left it.
C2_Idempotent ==
    [][(Synced /\ log.clean) => (dom' = dom /\ log'.w = NoWrites)]_vars

\* C3 (round trip), as claimed: after a pass in light mode a label that was
\* on the page from the start has the computed fill, color, font-size,
\* font-weight, font-family and text-decoration it had before the script ran
\* (the values a snapshot of the untouched page would hold), whatever
\* light and dark passes came before, a first pass in dark mode included
\* (passes that found both theme classes on the body are left aside).
C3_RoundTrip ==
    (log.clean /\ OnlyLight(log) /\ ~log.mixed)
        => \A e \in LabelIds :
               authored.labels[e].present
                   => getComputedStyle(labels, gt.color, e) = TrueOriginal(e)

\* The source with every marker "from" turned into "to".
AllReplaced(src, from, to) ==
    [i \in 1..Len(src) |-> IF src[i] = from THEN to ELSE src[i]]

\* The source with its first marker "from", if any, turned into "to".
FirstReplaced(src, from, to) ==
    IF Contains(src, from)
        THEN LET first == CHOOSE i \in 1..Len(src) :
                              /\ src[i] = from
                              /\ \A j \in 1..(i - 1) : src[j] # from
             IN  [src EXCEPT ![first] = to]
        ELSE src

Occurrences(src, marker) ==
    Cardinality({i \in 1..Len(src) : src[i] = marker})

\* C4 (image URL rewrite), as claimed: a pass in dark mode turns the .light
\* markers of the img source into .dark, a pass in light mode the .dark
\* markers into .light, so that no marker of the inactive theme is left; a
\* source that needs no change is not written.
C4_Rewrite ==
    [][/\ (Synced /\ OnlyDark(log'))
            => /\ img'.src = AllReplaced(img.src, LightMarker, DarkMarker)
               /\ ~Contains(img'.src, LightMarker)
               /\ (img'.src = img.src => log'.w.src = 0)
       /\ (Synced /\ OnlyLight(log'))
            => /\ img'.src = AllReplaced(img.src, DarkMarker, LightMarker)
               /\ ~Contains(img'.src, DarkMarker)
               /\ (img'.src = img.src => log'.w.src = 0)]_vars

\* C4, amended: a pass with only quarto-dark on the body turns the first
\* .light marker of the img source into .dark, a pass with only quarto-light
\* the first .dark marker into .light, and writes src exactly when that
\* changes it; a source that had at most one marker of the inactive theme
\* carries none afterwards.
C4_RewriteFirst ==
    [][/\ (Synced /\ OnlyDark(log'))
            => /\ img'.src = FirstReplaced(img.src, LightMarker, DarkMarker)
               /\ log'.w.src = (IF Contains(img.src, LightMarker) THEN 1 ELSE 0)
               /\ (Occurrences(img.src, LightMarker) <= 1
                       => ~Contains(img'.src, LightMarker))
       /\ (Synced /\ OnlyLight(log'))
            => /\ img'.src = FirstReplaced(img.src, DarkMarker, LightMarker)
               /\ log'.w.src = (IF Contains(img.src, DarkMarker) THEN 1 ELSE 0)
               /\ (Occurrences(img.src, DarkMarker) <= 1
                       => ~Contains(img'.src, DarkMarker))]_vars

\* C4 witness: a dark pass has just rewritten a source that still holds a
\* .light marker behind the one it replaced.
C4_Witness ==
    /\ log.calls >= 1
    /\ OnlyDark(log)
    /\ log.w.src = 1
    /\ Len(img.src) = 2
    /\ img.src[1] = DarkMarker
    /\ img.src[2] = LightMarker

\* C5 (fixed colour mapping): once a pass has run, an svg authored with an
\* inline background and a rect authored with an inline fill still declare
\* the property and hold rgb(34, 34, 34) if the latest pass found quarto-dark
\* on the body, rgb(255, 241, 229) if it found quarto-light alone, whatever
\* toggles and passes came before.
C5_FixedColour ==
    /\ log.isDark
        => /\ DeclaresInline(authored.svg.background) => svg.background = DarkColor
           /\ DeclaresInline(authored.rect.fill) => rect.fill = DarkColor
    /\ OnlyLight(log)
        => /\ DeclaresInline(authored.svg.background) => svg.background = LightColor
           /\ DeclaresInline(authored.rect.fill) => rect.fill = LightColor

\* C5 witness: the svg and the rect are dark after a light pass (which left
\* its font-size on the label) was followed by a dark one.
C5_Witness ==
    /\ OnlyDark(log)
    /\ svg.background = DarkColor
    /\ rect.fill = DarkColor
    /\ authored.svg.background = "red"
    /\ authored.labels["text"].style.fontSize = ""
    /\ labels["text"].style.fontSize # ""
    /\ labels["text"].style.fill = "white"

\* C6 (table text colour): once a pass has run, the gt container's inline
\* colour is white if the latest pass found quarto-dark on the body and
\* empty if it found quarto-light alone, whatever it was before.
C6_TableColour ==
    /\ log.isDark => gt.color = "white"
    /\ OnlyLight(log) => gt.color = ""

\* C6 witness: a container authored with an inline colour is cleared by a
\* light pass that came after a dark pass (which the tspan's snapshot shows).
C6_Witness ==
    /\ OnlyLight(log)
    /\ authored.gt.color = "navy"
    /\ gt.color = ""
    /\ labels["tspan"].originalStyle # NoSnapshot
    /\ JSONparse(labels["tspan"].originalStyle).fill = "rgb(255, 255, 255)"

BodyClassChange(m) ==
    m.type = "attributes" /\ m.attributeName = "class" /\ m.target = "body"

AnyClassChange(m) ==
    m.type = "attributes" /\ m.attributeName = "class"

SvgChildList(m) ==
    m.type = "childList" /\ m.target = "svg"

\* The step just taken ran the observer callback on the batch `pending`.
Delivered == log'.by = "observer"

\* C7 (trigger completeness): the callback invokes updateImageSrc exactly
\* once for a batch that holds a class change of the body or a child-list
\* change of an svg.
C7_TriggerComplete ==
    [][(Delivered /\ \E i \in 1..Len(pending) :
                         BodyClassChange(pending[i]) \/ SvgChildList(pending[i]))
           => log'.calls = 1]_vars

\* C7 witness: the callback has just run a pass on labels that were drawn
\* into the svg after the script was loaded.
C7_Witness ==
    /\ log.by = "observer"
    /\ log.calls = 1
    /\ ~authored.labels["text"].present
    /\ labels["text"].originalStyle # NoSnapshot
    /\ log.w.snapshot = 2

\* C8 (trigger soundness), as claimed: the callback invokes updateImageSrc
\* only for a batch that holds a class change of the body or a child-list
\* change of an svg.
C8_TriggerSound ==
    [][(Delivered /\ log'.calls >= 1)
           => \E i \in 1..Len(pending) :
                  BodyClassChange(pending[i]) \/ SvgChildList(pending[i])]_vars

\* C8, amended: the callback invokes updateImageSrc only for a batch that
\* holds a class change of some element under the body (the body included)
\* or a child-list change of an svg; a batch of child-list changes of other
\* elements and of changes of other attributes invokes nothing.
C8_TriggerSoundAnyClass ==
    [][(Delivered /\ log'.calls >= 1)
           => \E i \in 1..Len(pending) :
                  AnyClassChange(pending[i]) \/ SvgChildList(pending[i])]_vars

\* C8 witness: the callback has just run on a batch and invoked nothing.
C8_Witness ==
    /\ log.by = "observer"
    /\ log.calls = 0
    /\ version = "1.2.0"
    /\ pc = "active"

\* C9 (snapshot insertion-once): a label's snapshot, once set, is never
\* changed by any step.
C9_SnapshotOnce ==
    [][\A e \in LabelIds :
           labels[e].originalStyle # NoSnapshot
               => labels'[e].originalStyle = labels[e].originalStyle]_vars

\* C9 witness: a label holds its snapshot in dark mode after a light pass
\* has restored it once (the light pass left its font-size on the label).
C9_Witness ==
    /\ OnlyDark(log)
    /\ log.calls >= 1
    /\ log.w.snapshot = 0
    /\ labels["text"].originalStyle # NoSnapshot
    /\ authored.labels["text"].style.fontSize = ""
    /\ labels["text"].style.fontSize # ""
    /\ labels["text"].style.fill = "white"

\* C10 (snapshot faithfulness), as claimed: whenever a label holds a
\* snapshot, the snapshot decodes to the label's true original values.
C10_SnapshotFaithful ==
    \A e \in LabelIds :
        labels[e].originalStyle # NoSnapshot
            => JSONparse(labels[e].originalStyle) = TrueOriginal(e)

\* C11 (light mode removes the pagination listeners), as claimed: once a
\* light pass has followed the dark passes (the body having had one theme
\* class at a time), the listeners are detached: a mouseenter, mouseleave,
\* mousedown, mouseup or click on a pagination button changes no button's
\* background colour.
C11_LightDetaches ==
    [][(OnlyLight(log) /\ ~log.mixed /\ classes = {LightClass} /\ pending = <<>>
            /\ log'.by = "mouse")
           => \A b \in Buttons :
                  rt'.button[b].backgroundColor = rt.button[b].backgroundColor]_vars

\* C12 (listener registration is ensured, not accumulated), as claimed: a
\* pagination button carries at most one listener of the script per event
\* type, however many passes ran and however many reactable tables the
\* page holds.
C12_OneListenerPerType ==
    \A b \in Buttons : \A type \in EventTypes :
        rt.button[b].listeners[type] <= 1

\* The page is at rest in dark mode: the script is active, the body has
\* quarto-dark alone, every record was delivered and no timer is armed.
SettledDark ==
    /\ pc = "active"
    /\ rt.tables >= 1
    /\ classes = {DarkClass}
    /\ OnlyDark(log)
    /\ pending = <<>>
    /\ rt.timers = 0

\* C13 (current-page highlight is exclusive once settled), as claimed: when
\* the page has come to rest in dark mode, the current page button has the
\* highlight rgba(255, 255, 255, 0.2) and every other button the pointer is
\* not on has no background colour.
C13_ExclusiveOnceSettled ==
    SettledDark
        => /\ rt.button[rt.current].backgroundColor = "rgba(255, 255, 255, 0.2)"
           /\ \A b \in Buttons :
                  (b # rt.current /\ b # rt.pointer)
                      => rt.button[b].backgroundColor = ""

\* C14 (no observer feedback loop): no record queued by the writes of an
\* invocation (src, inline style, snapshot attribute) passes the callback's
\* test, and the callback, run on a batch that holds only such records,
\* invokes nothing and leaves no record pending: the invocations that follow
\* a theme change end with the first one.
C14_NoFeedback ==
    [][/\ Synced => \A i \in 1..Len(pending') : ~Qualifies(pending'[i])
       /\ (Delivered /\ \A i \in 1..Len(pending) : OwnWrite(pending[i]))
              => (log'.calls = 0 /\ pending' = <<>>)]_vars

\* C14 witness: without attributeFilter the src, style and snapshot writes of
\* a pass the callback invoked are queued for the callback.
C14_Witness ==
    /\ version = "1.1.0"
    /\ log.by = "observer"
    /\ log.calls = 1
    /\ log.w.src = 1
    /\ log.w.snapshot = 2
    /\ Len(pending) >= 3
    /\ \A i \in 1..Len(pending) : OwnWrite(pending[i])

\* The elements are in the form of the dark theme.
DarkForm(im, sv, re, lb, g) ==
    /\ ~Contains(im.src, LightMarker)
    /\ DeclaresInline(authored.svg.background) => sv.background = DarkColor
    /\ DeclaresInline(authored.rect.fill) => re.fill = DarkColor
    /\ \A e \in LabelIds :
           lb[e].present
               => getComputedStyle(lb, g.color, e).fill = "rgb(255, 255, 255)"
    /\ g.color = "white"

\* The elements are in the form of the light theme: the labels look as the
\* page was authored.
LightForm(im, sv, re, lb, g) ==
    /\ ~Contains(im.src, DarkMarker)
    /\ DeclaresInline(authored.svg.background) => sv.background = LightColor
    /\ DeclaresInline(authored.rect.fill) => re.fill = LightColor
    /\ \A e \in LabelIds :
           lb[e].present => getComputedStyle(lb, g.color, e) = TrueOriginal(e)
    /\ g.color = ""

\* C15 (latest theme wins), as claimed: once the callback has run on a batch
\* that holds a class change of the body, and the body has exactly one theme
\* class, the img, svg, rect, labels and gt container are in the form of
\* that theme.
C15_LatestThemeWins ==
    [][(Delivered /\ \E i \in 1..Len(pending) : BodyClassChange(pending[i]))
           => /\ classes = {DarkClass} => DarkForm(img', svg', rect', labels', gt')
              /\ classes = {LightClass} => LightForm(img', svg', rect', labels', gt')]_vars

\* Label e is on the page and holds a snapshot that cannot be decoded.
CorruptAt(e) ==
    /\ labels[e].present
    /\ labels[e].originalStyle = Malformed

\* e comes before f in document order.
Before(e, f) ==
    e = "text" /\ f = "tspan"

\* The pass reaches label e: no label before it holds a corrupted snapshot.
Reached(e) ==
    \A f \in LabelIds : Before(f, e) => ~CorruptAt(f)

\* The step just taken invoked updateImageSrc past its early return.
SyncedInTheme == Synced /\ (log'.isLight \/ log'.isDark)

\* C16 (corrupted snapshot): an invocation that meets a label whose snapshot
\* cannot be decoded ends in an uncaught exception at that label; the img,
\* svg and rect hold the values of the latest theme, while the label itself,
\* the labels after it, the gt container and the reactable widgets (their
\* listeners included) are as they were before the invocation.
C16_CorruptAborts ==
    [][\A e \in LabelIds :
           (SyncedInTheme /\ CorruptAt(e) /\ Reached(e))
               => /\ log'.threw
                  /\ img'.src = (IF log'.isLight /\ log'.isDark THEN img.src
                                 ELSE IF log'.isDark
                                     THEN FirstReplaced(img.src, LightMarker, DarkMarker)
                                     ELSE FirstReplaced(img.src, DarkMarker, LightMarker))
                  /\ svg'.background = (IF log'.isDark THEN DarkColor ELSE LightColor)
                  /\ rect'.fill = (IF log'.isDark THEN DarkColor ELSE LightColor)
                  /\ labels'[e] = labels[e]
                  /\ \A f \in LabelIds : Before(e, f) => labels'[f] = labels[f]
                  /\ gt' = gt
                  /\ rt' = rt]_vars

\* C16 witness: a dark pass has thrown at the tspan after it rewrote the img,
\* the svg and the <text>; the gt container and the buttons of the reactable
\* widget were not reached.
C16_Witness ==
    /\ log.threw
    /\ OnlyDark(log)
    /\ version = "1.2.0"
    /\ labels["tspan"].originalStyle = Malformed
    /\ labels["text"].style.fill = "white"
    /\ Contains(img.src, DarkMarker)
    /\ svg.background = DarkColor
    /\ gt.color = ""
    /\ rt.tables >= 1
    /\ rt.button["p1"].listeners = NoListeners

\* C17 (absent snapshot), as claimed: an invocation that processes a label
\* without a snapshot ends in an uncaught parse error.
C17_AbsentThrows ==
    [][\A e \in LabelIds :
           (SyncedInTheme /\ labels[e].present /\ Reached(e)
                /\ labels[e].originalStyle = NoSnapshot)
               => log'.threw]_vars

\* C17, amended: an invocation that processes a label without a snapshot
\* first stores one, which decodes (for the <text>, to its computed style
\* before the invocation); the invocation throws only if some label on the
\* page holds a snapshot that cannot be decoded.
C17_AbsentCaptured ==
    [][/\ \A e \in LabelIds :
              (SyncedInTheme /\ labels[e].present /\ Reached(e)
                   /\ labels[e].originalStyle = NoSnapshot)
                  => /\ Decodable(labels'[e].originalStyle)
                     /\ e = "text"
                          => JSONparse(labels'[e].originalStyle)
                                 = getComputedStyle(labels, gt.color, e)
       /\ (SyncedInTheme /\ log'.threw) => \E e \in LabelIds : CorruptAt(e)]_vars

\* C17 witness: the script's first pass, in light mode, has stored the
\* snapshots of both labels and completed.
C17_Witness ==
    /\ log.by = "script"
    /\ log.calls = 1
    /\ OnlyLight(log)
    /\ ~log.threw
    /\ log.w.snapshot = 2
    /\ \A e \in LabelIds : Decodable(labels[e].originalStyle)
    /\ gt.color = ""

\* C18 (startup activation), as claimed: whether or not the body exists when
\* the script is evaluated, the evaluation registers the observer and the
\* DOMContentLoaded handler and makes one eager call, and the
\* DOMContentLoaded step invokes updateImageSrc with the observer active.
C18_StartupActivation ==
    [][/\ (pc = "script" /\ pc' # "script")
            => (observing' /\ dclHandler' /\ log'.by = "script" /\ log'.calls = 1)
       /\ (~loaded /\ loaded')
            => (observing' /\ log'.by = "dcl" /\ log'.calls = 1)]_vars

\* The step just taken left every kind of element as the dark theme has it.
AppliedDark ==
    /\ img'.src = FirstReplaced(img.src, LightMarker, DarkMarker)
    /\ DeclaresInline(svg.background) => svg'.background = DarkColor
    /\ DeclaresInline(rect.fill) => rect'.fill = DarkColor
    /\ \A e \in LabelIds : labels[e].present => labels'[e].style.fill = "white"
    /\ gt'.color = "white"

\* The step just taken left every kind of element as the light theme has it
\* (a label: with the values of its snapshot).
AppliedLight ==
    /\ img'.src = FirstReplaced(img.src, DarkMarker, LightMarker)
    /\ DeclaresInline(svg.background) => svg'.background = LightColor
    /\ DeclaresInline(rect.fill) => rect'.fill = LightColor
    /\ \A e \in LabelIds :
           labels[e].present
               => labels'[e].style = JSONparse(labels'[e].originalStyle)
    /\ gt'.color = ""

\* C19 (single theme per pass), as claimed: an invocation that is no no-op,
\* one that finds both theme classes on the body included, applies one and
\* the same theme to the img, the svg and rect, the labels and the gt
\* container.
C19_SingleTheme ==
    [][SyncedInTheme => (AppliedDark \/ AppliedLight)]_vars

====
